---- MODULE Spec2Model ----
(***************************************************************************)
(* ps9s: the root Bubble Tea model (internal/ui/model.go) with its four    *)
(* screen models, as a state machine over the messages of the event loop.  *)
(*                                                                         *)
(* A screen never changes the session itself: a key press makes the screen *)
(* return a tea.Cmd, the runtime runs the command in its own goroutine and *)
(* sends the resulting message to Model.Update later.  The commands and    *)
(* messages that have been returned but not yet handled are the bag        *)
(* `inflight`; the runtime gives no order between them and further key     *)
(* presses.                                                                *)
(***************************************************************************)
EXTENDS Bags, FiniteSets, Integers, Sequences, TLC

VARIABLES
    currentScreen,      \* Model.currentScreen
    currentProfile,     \* Model.currentProfile
    currentRegion,      \* Model.currentRegion
    awsClients,         \* Model.awsClients: profile -> region the client was created for ("" = no entry)
    regionMapping,      \* Model.regionMapping.ProfileRegions ("" = no entry)
    recents,            \* Model.recents
    switchingToRecent,  \* Model.switchingToRecent
    profileSelector,    \* Model.profileSelector (ProfileSelectorModel): the profile under the cursor
    regionSelector,     \* Model.regionSelector (RegionSelectorModel): the region under the cursor
    parameterList,      \* Model.parameterList (ParameterListModel)
    parameterView,      \* Model.parameterView (ParameterViewModel)
    parameterEdit,      \* Model.parameterEdit (ParameterEditModel)
    inflight,           \* commands returned to the runtime whose message has not been handled yet
    running,            \* FALSE once the event loop has ended (tea.Quit, or a panic)
    diskOk,             \* whether writes below ~/.ps9s succeed in this session
    diskRegions,        \* regions.json
    diskRecents,        \* recents.json
    remote,             \* Parameter Store as seen so far: client -> value of the parameter
    keys,               \* key presses so far
    call                \* a call of the path functions on their own: arguments and results

vars == <<currentScreen, currentProfile, currentRegion, awsClients, regionMapping,
          recents, switchingToRecent, profileSelector, regionSelector, parameterList,
          parameterView, parameterEdit,
          inflight, running, diskOk, diskRegions, diskRecents, remote, keys, call>>

----------------------------------------------------------------------------
(* Bounds of the model *)

\* commands/messages that may be in flight at once
MaxInFlight == 2
\* key presses in one session
MaxKeys == 5

\* a capacity of one entry more
MaxRecentsOffByOne == 5 + 1

\* the capacity Model.Update passes to config.AddRecentEntry
MaxRecents == 5

\* PS9S_AWS_PROFILES of this session, and a profile only an earlier session had
Profiles == {"p1", "p2"}
OldProfiles == {"p0"}
\* the regions offered by the region selector (defaultRegions)
Regions == {"r1", "r2"}
\* the names a listing returns: any prefix of this sequence
ParamNames == <<"a">>

\* the text typed into the editor
TypedTexts == {"w"}

\* recents.json as found on disk at start-up: a first run, or two contexts of an earlier session
InitRecents ==
    { <<>>,
      << <<"p1", "r1">>, <<"p2", "r2">> >> }

\* recents.json holding a full list of an earlier session, part of it for a profile that
\* is no longer configured
FullRecents ==
    << <<"p1", "r1">>, <<"p0", "r1">>, <<"p2", "r1">>, <<"p0", "r2">>, <<"p1", "r2">> >>

----------------------------------------------------------------------------
(* Values *)

ProfileSelectorScreen == "ProfileSelect"
RegionSelectorScreen == "RegionSelect"
ParameterListScreen == "ParamList"
ParameterViewScreen == "ParamDetail"
ParameterEditScreen == "ParamEdit"

Screen ==
    {ProfileSelectorScreen, RegionSelectorScreen, ParameterListScreen,
     ParameterViewScreen, ParameterEditScreen}

\* a *aws.Client: the profile and region it was created with; NilClient is a nil pointer
NilClient == <<"", "">>

----------------------------------------------------------------------------
(* Go strings, JSON trees and the path functions of the detail and edit screens *)

\* A Go string is a literal or the JSON text of a container tree (its layout is not kept);
\* GoFmt is what fmt's %v prints for a container.
S(s) == [k |-> "lit", s |-> s]
J(tree) == [k |-> "json", t |-> tree]
GoFmt(tree) == [k |-> "gofmt", t |-> tree]

\* what encoding/json decodes into interface{}; object keys and paths are sequences of
\* characters, an object is a function from its keys
\* A float64 is kept as sign, whole part and the digits of its fraction (no trailing
\* zeros), which is exact for the decimal texts of the model; Int64 is what parseNumber
\* returns for an integral value.
Str(g) == [k |-> "str", g |-> g]
Float64(neg, whole, frac) == [k |-> "num", neg |-> neg, whole |-> whole, frac |-> frac]
Num(n) == Float64(FALSE, n, "")
Int64(n) == [k |-> "int", n |-> n]
Bool(b) == [k |-> "bool", b |-> b]
Null == [k |-> "null"]
Obj(f) == [k |-> "obj", f |-> f]
Arr(items) == [k |-> "arr", a |-> items]
Invalid == [k |-> "invalid"]

\* byte order of the characters keys, paths and typed texts are made of
Alphabet == <<" ", "+", "-", ".", "0", "1", "2", "3", "4", "5", "6", "7", "8", "9",
              "[", "]", "a", "b", "c", "d", "e", "f", "g", "h", "i", "j", "k", "l", "m",
              "n", "o", "p", "q", "r", "s", "t", "u", "v", "w", "x", "y", "z">>
Rank(c) == CHOOSE i \in 1..Len(Alphabet) : Alphabet[i] = c

\* a string as the sequence of its characters, and s[i]
Chars(s) == [i \in 1..Len(s) |-> SubSeq(s, i, i)]
At(s, i) == SubSeq(s, i, i)

IsDigit(c) == c \in {"0", "1", "2", "3", "4", "5", "6", "7", "8", "9"}

\* the digits a string starts with, as a number
RECURSIVE ScanDigits(_, _)
ScanDigits(chars, acc) ==
    IF chars # <<>> /\ IsDigit(chars[1])
    THEN ScanDigits(Tail(chars), 10 * acc + Rank(chars[1]) - Rank("0"))
    ELSE acc

\* how many digits, how many spaces stand at position i and after
RECURSIVE DigitsFrom(_, _)
DigitsFrom(s, i) == IF i <= Len(s) /\ IsDigit(At(s, i)) THEN 1 + DigitsFrom(s, i + 1) ELSE 0
RECURSIVE SpacesFrom(_, _)
SpacesFrom(s, i) == IF i <= Len(s) /\ At(s, i) = " " THEN 1 + SpacesFrom(s, i + 1) ELSE 0

\* a fraction without its trailing zeros
RECURSIVE StripZeros(_)
StripZeros(s) ==
    IF Len(s) > 0 /\ At(s, Len(s)) = "0" THEN StripZeros(SubSeq(s, 1, Len(s) - 1)) ELSE s

\* SkipSpace and floatToken of fmt's scanner: the longest prefix sign, digits, ".", digits
\* after the leading spaces, whatever follows it.  (The texts of the model spell no
\* exponent, hexadecimal number, underscore, NaN or Inf.)
floatToken(s) ==
    LET start == 1 + SpacesFrom(s, 1)
        signed == start <= Len(s) /\ At(s, start) \in {"+", "-"}
        d == IF signed THEN start + 1 ELSE start
        w == DigitsFrom(s, d)
        point == d + w <= Len(s) /\ At(s, d + w) = "."
        f == IF point THEN DigitsFrom(s, d + w + 1) ELSE 0
    IN  [neg |-> signed /\ At(s, start) = "-",
         signed |-> signed,
         whole |-> SubSeq(s, d, d + w - 1),
         frac |-> SubSeq(s, d + w + 1, d + w + f),
         end |-> d + w + (IF point THEN 1 + f ELSE 0)]

\* strconv.ParseFloat of a token; it fails on a token without a digit
ParseFloatOk(token) == Len(token.whole) + Len(token.frac) > 0
ParseFloat(token) ==
    Float64(token.neg, ScanDigits(Chars(token.whole), 0), StripZeros(token.frac))

\* the number grammar of encoding/json over a whole text: "-" but no "+", no leading
\* zero, digits on both sides of a "."
IsJSONNumber(s) ==
    LET token == floatToken(s) IN
    /\ Len(s) > 0 /\ At(s, 1) # " " /\ At(s, 1) # "+"
    /\ token.end = Len(s) + 1
    /\ Len(token.whole) > 0
    /\ (Len(token.whole) > 1 => At(token.whole, 1) # "0")
    /\ (At(s, Len(s)) # ".")

\* json.Unmarshal(value, &interface{}): Invalid when it returns an error
Unmarshal(g) ==
    CASE g.k = "json" -> g.t
      [] g.k = "gofmt" -> Invalid
      [] g.s = "null" -> Null
      [] g.s = "true" -> Bool(TRUE)
      [] g.s = "false" -> Bool(FALSE)
      [] IsJSONNumber(g.s) -> ParseFloat(floatToken(g.s))
      [] OTHER -> Invalid

\* isValidJSON
isValidJSON(g) == Unmarshal(g) # Invalid

\* the final switch of flattenJSONForView and getJSONValue: a value as a string; %v
\* prints a float64 below 10^6 as its shortest decimal, without exponent
LeafText(v) ==
    CASE v.k = "str" -> v.g
      [] v.k = "null" -> S("null")
      [] v.k = "bool" -> S(IF v.b THEN "true" ELSE "false")
      [] v.k = "num" ->
            S((IF v.neg THEN "-" ELSE "") \o ToString(v.whole)
                 \o (IF v.frac = "" THEN "" ELSE "." \o v.frac))
      [] v.k = "int" -> S(ToString(v.n))
      [] OTHER -> GoFmt(v)

\* json.MarshalIndent followed by what json.Unmarshal makes of the text again: every
\* number is a float64
RECURSIVE Decoded(_)
Decoded(t) ==
    CASE t.k = "int" -> Float64(t.n < 0, IF t.n < 0 THEN 0 - t.n ELSE t.n, "")
      [] t.k = "obj" -> Obj([key \in DOMAIN t.f |-> Decoded(t.f[key])])
      [] t.k = "arr" -> Arr([i \in 1..Len(t.a) |-> Decoded(t.a[i])])
      [] OTHER -> t
MarshalIndent(tree) == J(Decoded(tree))

RECURSIVE StringLess(_, _)
StringLess(a, b) ==
    IF a = <<>> THEN b # <<>>
    ELSE IF b = <<>> THEN FALSE
    ELSE IF a[1] = b[1] THEN StringLess(Tail(a), Tail(b))
    ELSE Rank(a[1]) < Rank(b[1])

\* the keys of a map, largest first
RECURSIVE SortStringsDescending(_)
SortStringsDescending(names) ==
    IF names = {} THEN <<>>
    ELSE LET last == CHOOSE a \in names : \A b \in names \ {a} : StringLess(b, a)
         IN  <<last>> \o SortStringsDescending(names \ {last})

\* sort.Strings over the keys of a map
RECURSIVE SortStrings(_)
SortStrings(names) ==
    IF names = {} THEN <<>>
    ELSE LET first == CHOOSE a \in names : \A b \in names \ {a} : StringLess(a, b)
         IN  <<first>> \o SortStrings(names \ {first})

\* fmt.Sprintf("%d", i) for the indexes of the model
Itoa(i) == IF i < 10 THEN <<ToString(i)>> ELSE <<ToString(i \div 10), ToString(i % 10)>>

\* flattenJSONForView (flattenJSON yields the same keys)
RECURSIVE flattenJSONForView(_, _)
RECURSIVE FlattenKeys(_, _, _)
RECURSIVE FlattenItems(_, _, _)
FlattenKeys(f, names, prefix) ==
    IF names = <<>> THEN <<>>
    ELSE LET key == names[1]
             newPrefix == IF prefix # <<>> THEN prefix \o <<".">> \o key ELSE key
         IN  flattenJSONForView(f[key], newPrefix) \o FlattenKeys(f, Tail(names), prefix)
FlattenItems(items, i, prefix) ==
    IF i > Len(items) THEN <<>>
    ELSE flattenJSONForView(items[i], prefix \o <<"[">> \o Itoa(i - 1) \o <<"]">>)
            \o FlattenItems(items, i + 1, prefix)
flattenJSONForView(data, prefix) ==
    CASE data.k = "obj" -> FlattenKeys(data.f, SortStrings(DOMAIN data.f), prefix)
      [] data.k = "arr" -> FlattenItems(data.a, 1, prefix)
      [] OTHER -> << [key |-> prefix, value |-> LeafText(data)] >>

\* fmt.Sscanf(indexStr, "%d", &index): the index stays 0 when no number is there
ScanIndex(chars) ==
    IF chars # <<>> /\ chars[1] = "-" THEN 0 - ScanDigits(Tail(chars), 0)
    ELSE IF chars # <<>> /\ chars[1] = "+" THEN ScanDigits(Tail(chars), 0)
    ELSE ScanDigits(chars, 0)

\* strings.Index(path[i:], "]"): the offset of the first "]" at or after position i, or -1
RECURSIVE IndexOfClose(_, _, _)
IndexOfClose(path, i, offset) ==
    IF i + offset > Len(path) THEN -1
    ELSE IF path[i + offset] = "]" THEN offset
    ELSE IndexOfClose(path, i, offset + 1)

KeyPart(key) == [key |-> key, isArray |-> FALSE, index |-> 0]
ArrayPart(key, index) == [key |-> key, isArray |-> TRUE, index |-> index]

\* the loop of parsePath from position i on (positions count from 1)
RECURSIVE ParseFrom(_, _, _, _)
ParseFrom(path, i, current, parts) ==
    IF i > Len(path)
    THEN IF current # <<>> THEN Append(parts, KeyPart(current)) ELSE parts
    ELSE CASE path[i] = "." ->
                IF current # <<>>
                THEN ParseFrom(path, i + 1, <<>>, Append(parts, KeyPart(current)))
                ELSE ParseFrom(path, i + 1, current, parts)
           [] path[i] = "[" ->
                IF current # <<>>
                THEN LET endBracket == IndexOfClose(path, i, 0) IN
                     IF endBracket = -1
                     THEN <<>>
                     ELSE ParseFrom(path, i + endBracket + 1, <<>>,
                                    Append(parts,
                                           ArrayPart(current,
                                                     ScanIndex(SubSeq(path, i + 1,
                                                                      i + endBracket - 1)))))
                ELSE ParseFrom(path, i + 1, current, parts)
           [] path[i] = "]" -> ParseFrom(path, i + 1, current, parts)
           [] OTHER -> ParseFrom(path, i + 1, Append(current, path[i]), parts)

\* parsePath
parsePath(path) == ParseFrom(path, 1, <<>>, <<>>)

\* a slice index below zero is a run-time panic
Panic == [k |-> "panic"]

\* the walk of getJSONValue from part i on
RECURSIVE GetFrom(_, _, _)
GetFrom(current, parts, i) ==
    IF i > Len(parts) THEN LeafText(current)
    ELSE LET part == parts[i] IN
         IF part.isArray
         THEN IF current.k # "arr" \/ part.index >= Len(current.a) THEN S("")
              ELSE IF part.index < 0 THEN Panic
              ELSE GetFrom(current.a[part.index + 1], parts, i + 1)
         ELSE IF current.k # "obj" THEN S("")
              ELSE IF part.key \notin DOMAIN current.f THEN S("")
              ELSE GetFrom(current.f[part.key], parts, i + 1)

\* getJSONValue
getJSONValue(data, path) ==
    LET parts == parsePath(path) IN
    IF Len(parts) = 0 THEN S("") ELSE GetFrom(data, parts, 1)

\* parseNumber: the number fmt.Sscanf reads with %f from the start of the text, as an
\* int64 when float64(int64(f)) == f; NoNumber is its nil.  The text of a container
\* starts with "{", "[" or "m" and scans as no number.
NoNumber == [k |-> "none"]
parseNumber(g) ==
    IF g.k # "lit" \/ ~ParseFloatOk(floatToken(g.s)) THEN NoNumber
    ELSE LET f == ParseFloat(floatToken(g.s)) IN
         IF f.frac = "" THEN Int64(IF f.neg THEN 0 - f.whole ELSE f.whole) ELSE f

\* the type detection of updateJSONValue
ParsedValue(newValue) ==
    CASE newValue = S("null") -> Null
      [] newValue = S("true") -> Bool(TRUE)
      [] newValue = S("false") -> Bool(FALSE)
      [] parseNumber(newValue) # NoNumber -> parseNumber(newValue)
      [] OTHER -> Str(newValue)

\* outcomes of updateJSONValue: the tree after the assignment, a returned error, a panic
Updated(tree) == [k |-> "ok", t |-> tree]
UpdateError == [k |-> "error"]

\* the navigation and the final assignment of updateJSONValue from part i on
RECURSIVE SetFrom(_, _, _, _)
SetFrom(current, parts, i, parsedValue) ==
    LET part == parts[i] IN
    IF i = Len(parts)
    THEN IF part.isArray
         THEN IF current.k # "arr" \/ part.index >= Len(current.a) THEN UpdateError
              ELSE IF part.index < 0 THEN Panic
              ELSE Updated([current EXCEPT !.a[part.index + 1] = parsedValue])
         ELSE IF current.k # "obj" THEN UpdateError
              ELSE Updated(Obj((part.key :> parsedValue) @@ current.f))
    ELSE IF part.isArray
         THEN IF current.k # "arr" \/ part.index >= Len(current.a) THEN UpdateError
              ELSE IF part.index < 0 THEN Panic
              ELSE LET below == SetFrom(current.a[part.index + 1], parts, i + 1, parsedValue)
                   IN  IF below.k = "ok"
                       THEN Updated([current EXCEPT !.a[part.index + 1] = below.t])
                       ELSE below
         ELSE IF current.k # "obj" THEN UpdateError
              ELSE IF part.key \notin DOMAIN current.f THEN UpdateError
              ELSE LET below == SetFrom(current.f[part.key], parts, i + 1, parsedValue)
                   IN  IF below.k = "ok"
                       THEN Updated([current EXCEPT !.f[part.key] = below.t])
                       ELSE below

\* updateJSONValue on the map LoadParameter decoded; a nil map (the value null) takes no
\* assignment
updateJSONValue(data, path, newValue) ==
    LET parts == parsePath(path) IN
    IF Len(parts) = 0 THEN UpdateError
    ELSE IF data = Null /\ Len(parts) = 1 /\ ~parts[1].isArray THEN Panic
    ELSE SetFrom(data, parts, 1, ParsedValue(newValue))

----------------------------------------------------------------------------
(* Parameters, messages and commands *)

\* the values a parameter may hold in Parameter Store when the session first reads it:
\* plain text, {"a": ["x"], "k": "v"}, and ["a"]
PlainValue == S("hello")
ObjectValue == J(Obj((<<"a">> :> Arr(<<Str(S("x"))>>)) @@ (<<"k">> :> Str(S("v")))))
ArrayValue == J(Arr(<<Str(S("a"))>>))

\* a *aws.Parameter: name, the client that produced it, whether it came from GetParameter
\* (DescribeParameters returns no values), and its Value
NoParam == [name |-> "", from |-> NilClient, full |-> FALSE, value |-> S("")]

\* every message and command has the same shape; unused fields keep these defaults
Msg(t) ==
    [t |-> t, profile |-> "", region |-> "", n |-> 0, via |-> "", param |-> NoParam,
     key |-> <<>>]

ProfileSelectedMsg(p) == [Msg("ProfileSelected") EXCEPT !.profile = p]
RegionSelectedMsg(r) == [Msg("RegionSelected") EXCEPT !.region = r]
ViewParameterMsg(prm) == [Msg("ViewParameter") EXCEPT !.param = prm]
EditParameterMsg(prm, key) == [Msg("EditParameter") EXCEPT !.param = prm, !.key = key]
BackMsg == Msg("Back")
GoToProfileSelectionMsg == Msg("GoToProfileSelection")
SwitchRecentMsg(p, r) == [Msg("SwitchRecent") EXCEPT !.profile = p, !.region = r]
ErrorMsg(src) == [Msg("Error") EXCEPT !.via = src]

\* the three gateway commands; profile/region are those of the client the closure captured
ListCmd(client, via) ==
    [Msg("List") EXCEPT !.profile = client[1], !.region = client[2], !.via = via]
GetCmd(client, prm) ==
    [Msg("Get") EXCEPT !.profile = client[1], !.region = client[2], !.param = prm]
PutCmd(client, prm) ==
    [Msg("Put") EXCEPT !.profile = client[1], !.region = client[2], !.param = prm]

----------------------------------------------------------------------------
(* internal/config (recents.go is not part of the sources at hand) *)

RECURSIVE Without(_, _)
Without(s, e) ==
    IF s = <<>> THEN <<>>
    ELSE IF Head(s) = e THEN Without(Tail(s), e)
    ELSE <<Head(s)>> \o Without(Tail(s), e)

\* config.AddRecentEntry(entries, entry, max): entry to the front, de-duplicated, at most max
AddRecentEntry(entries, entry, max) ==
    LET all == <<entry>> \o Without(entries, entry) IN
    IF Len(all) <= max THEN all ELSE SubSeq(all, 1, max)

----------------------------------------------------------------------------
(* Construction *)

\* keys the two maps are read or written with
ProfileKeys == Profiles \cup OldProfiles \cup {""}

\* NewProfileSelector: the list starts on its first item
NewProfileSelector == [cursor |-> "p1"]

\* NewRegionSelector: the list starts on its first item
NewRegionSelector == [cursor |-> "r1"]

NewParameterList(rec) ==
    [parameters |-> [from |-> NilClient, n |-> 0],
     filtered |-> {},
     query |-> "",
     loading |-> FALSE,
     searchActive |-> FALSE,
     client |-> NilClient,
     err |-> "",
     currentProfile |-> "",
     currentRegion |-> "",
     recents |-> rec]

NewParameterView ==
    [parameter |-> NoParam, client |-> NilClient, loading |-> FALSE, err |-> "",
     isJSON |-> FALSE, jsonKeys |-> <<>>, selectedIndex |-> 0,
     currentProfile |-> "", currentRegion |-> ""]

\* NewParameterEdit; buffer is the text of the textarea, jsonData a nil map
NewParameterEdit ==
    [parameter |-> NoParam, client |-> NilClient, saving |-> FALSE, err |-> "",
     isJSON |-> FALSE, jsonData |-> Null, buffer |-> S(""),
     selectedKey |-> <<>>, currentProfile |-> "", currentRegion |-> ""]

\* NewModel, given what config.LoadRecentEntries returned; main passes an empty client pool
\* and the region mapping of a first run
NewModel(rec) ==
    /\ currentScreen = ProfileSelectorScreen
    /\ currentProfile = ""
    /\ currentRegion = ""
    /\ awsClients = [p \in ProfileKeys |-> ""]
    /\ regionMapping = [p \in ProfileKeys |-> ""]
    /\ recents = rec
    /\ switchingToRecent = FALSE
    /\ profileSelector = NewProfileSelector
    /\ regionSelector = NewRegionSelector
    /\ parameterList = NewParameterList(recents)
    /\ parameterView = NewParameterView
    /\ parameterEdit = NewParameterEdit
    /\ inflight = EmptyBag
    /\ running = TRUE
    /\ diskRegions = regionMapping
    /\ diskRecents = rec
    /\ remote = <<>>
    /\ keys = 0

\* no call of the path functions outside the program
NoCall == [op |-> "none"]

Init == diskOk \in BOOLEAN /\ call = NoCall /\ \E rec \in InitRecents : NewModel(rec)

InitFull == diskOk = TRUE /\ call = NoCall /\ NewModel(FullRecents)

----------------------------------------------------------------------------
(* The runtime's bag of pending commands *)

Pending == BagToSet(inflight)
Room == BagCardinality(inflight) < MaxInFlight
Send(bag, m) == bag (+) SetToBag({m})
Drop(bag, m) == bag (-) SetToBag({m})

\* Model.awsClients[profile]: nil when the map has no entry
ClientOf(profile) ==
    IF awsClients[profile] = "" THEN NilClient ELSE <<profile, awsClients[profile]>>

----------------------------------------------------------------------------
(* Screen model methods *)

\* RegionSelectorModel.SetDefaultRegion: the cursor goes to the region if the list has it
SetDefaultRegion(rs, region) ==
    IF region # "" /\ region \in Regions THEN [rs EXCEPT !.cursor = region] ELSE rs

\* ParameterListModel.SetContext
ListSetContext(pl, profile, region) ==
    [pl EXCEPT !.currentProfile = profile, !.currentRegion = region]

\* ParameterListModel.LoadParameters (the state part; the command is ListCmd)
ListLoadParameters(pl, client) ==
    [pl EXCEPT !.client = client, !.loading = TRUE, !.err = ""]

\* ParameterListModel.SetRecents
ListSetRecents(pl, entries) == [pl EXCEPT !.recents = entries]

\* ParameterListModel.filterParameters: indexes of the parameters whose name contains the query
FilterParameters(n, query) ==
    IF query = "" THEN 1..n ELSE {i \in 1..n : ParamNames[i] = query}

\* ParameterViewModel.SetContext + LoadParameter (the state part; the command is GetCmd)
ViewLoadParameter(pv, profile, region, prm, client) ==
    [pv EXCEPT !.currentProfile = profile, !.currentRegion = region,
               !.client = client, !.parameter = prm, !.loading = TRUE, !.err = ""]

\* ParameterEditModel.SetContext + LoadParameter, were the textarea left as it is
EditLoadParameterKeepingText(pe, profile, region, prm, client, key) ==
    [pe EXCEPT !.currentProfile = profile, !.currentRegion = region,
               !.parameter = prm, !.client = client, !.err = "", !.saving = FALSE,
               !.selectedKey = key]

\* ParameterEditModel.SetContext + LoadParameter: a JSON key is edited when the value
\* decodes into a map (json.Unmarshal into a map succeeds for objects, and for null, which
\* leaves the map nil), the whole raw value otherwise
EditLoadParameter(pe, profile, region, prm, client, key) ==
    LET loaded == [pe EXCEPT !.currentProfile = profile, !.currentRegion = region,
                             !.parameter = prm, !.client = client, !.err = "",
                             !.saving = FALSE, !.selectedKey = key]
    IN  IF isValidJSON(prm.value) /\ key # <<>> /\ Unmarshal(prm.value).k \in {"obj", "null"}
        THEN [loaded EXCEPT !.isJSON = TRUE,
                            !.jsonData = Unmarshal(prm.value),
                            !.buffer = getJSONValue(Unmarshal(prm.value), key)]
        ELSE [loaded EXCEPT !.isJSON = FALSE, !.buffer = prm.value]

\* ParameterListModel.Update for the messages the root model routes to it
ListUpdate(pl, msg) ==
    CASE msg.t = "ParametersLoaded" ->
            [pl EXCEPT !.parameters = [from |-> <<msg.profile, msg.region>>, n |-> msg.n],
                       !.filtered = 1..msg.n,
                       !.loading = FALSE]
      [] msg.t = "Error" -> [pl EXCEPT !.loading = FALSE, !.err = msg.via]
      [] OTHER -> pl

\* ParameterViewModel.Update for the messages the root model routes to it
ViewUpdate(pv, msg) ==
    CASE msg.t = "ParameterValueLoaded" ->
            [pv EXCEPT !.parameter = msg.param, !.loading = FALSE, !.selectedIndex = 0,
                       !.isJSON = isValidJSON(msg.param.value),
                       !.jsonKeys = IF isValidJSON(msg.param.value)
                                    THEN flattenJSONForView(Unmarshal(msg.param.value), <<>>)
                                    ELSE pv.jsonKeys]
      [] msg.t = "Error" -> [pv EXCEPT !.loading = FALSE, !.err = msg.via]
      [] OTHER -> pv

\* ParameterEditModel.Update for the messages the root model routes to it
EditUpdate(pe, msg) ==
    CASE msg.t = "Error" -> [pe EXCEPT !.saving = FALSE, !.err = msg.via]
      [] OTHER -> pe

\* Model.updateCurrentScreen: only the active screen sees the message
updateCurrentScreen(pl, msg) ==
    /\ parameterList' = IF currentScreen = ParameterListScreen THEN ListUpdate(pl, msg) ELSE pl
    /\ parameterView' =
          IF currentScreen = ParameterViewScreen THEN ViewUpdate(parameterView, msg)
          ELSE parameterView
    /\ parameterEdit' =
          IF currentScreen = ParameterEditScreen THEN EditUpdate(parameterEdit, msg)
          ELSE parameterEdit
    /\ UNCHANGED <<profileSelector, regionSelector>>

----------------------------------------------------------------------------
(* Key presses: tea.KeyMsg reaches the active screen through Model.Update *)

Session == <<currentProfile, currentRegion, awsClients, regionMapping, recents, switchingToRecent>>
Disk == <<diskOk, diskRegions, diskRecents>>
Screens == <<profileSelector, regionSelector, parameterList, parameterView, parameterEdit>>

\* one more tea.KeyMsg is read from the terminal
Press == running /\ keys < MaxKeys /\ keys' = keys + 1 /\ call' = call

\* a key whose only effect is a command handed to the runtime
Emit(m) ==
    /\ Room
    /\ inflight' = Send(inflight, m)
    /\ UNCHANGED <<currentScreen, Session, Screens, running, Disk, remote>>

\* a key that is handled and changes nothing
Ignore == UNCHANGED <<currentScreen, Session, Screens, inflight, running, Disk, remote>>

\* ProfileSelectorModel.Update "enter": the profile under the cursor
KeyProfileEnter ==
    /\ Press /\ currentScreen = ProfileSelectorScreen
    /\ Emit(ProfileSelectedMsg(profileSelector.cursor))

\* ProfileSelectorModel.Update, any other key: "up"/"down" of the list move the cursor
KeyProfileMove ==
    /\ Press /\ currentScreen = ProfileSelectorScreen
    /\ \E p \in Profiles \ {profileSelector.cursor} :
          profileSelector' = [profileSelector EXCEPT !.cursor = p]
    /\ UNCHANGED <<currentScreen, Session, regionSelector, parameterList, parameterView,
                   parameterEdit, inflight, running, Disk, remote>>

\* ProfileSelectorModel.Update "esc"/"backspace"
KeyProfileEsc ==
    /\ Press /\ currentScreen = ProfileSelectorScreen
    /\ Ignore

\* RegionSelectorModel.Update "enter": the region under the cursor.  The message is tagged
\* with the profile the selector was open for (the code does not carry it: Model.Update
\* reads m.currentProfile).
KeyRegionEnter ==
    /\ Press /\ currentScreen = RegionSelectorScreen
    /\ Emit([RegionSelectedMsg(regionSelector.cursor) EXCEPT !.profile = currentProfile])

\* RegionSelectorModel.Update, any other key: "up"/"down" of the list move the cursor
KeyRegionMove ==
    /\ Press /\ currentScreen = RegionSelectorScreen
    /\ \E r \in Regions \ {regionSelector.cursor} :
          regionSelector' = [regionSelector EXCEPT !.cursor = r]
    /\ UNCHANGED <<currentScreen, Session, profileSelector, parameterList, parameterView,
                   parameterEdit, inflight, running, Disk, remote>>

\* RegionSelectorModel.Update "backspace"/"esc"
KeyRegionEsc ==
    /\ Press /\ currentScreen = RegionSelectorScreen
    /\ Emit(BackMsg)

ListNavigable ==
    /\ currentScreen = ParameterListScreen
    /\ ~parameterList.searchActive /\ ~parameterList.loading

\* ParameterListModel.Update "/"
KeyListSearch ==
    /\ Press /\ ListNavigable
    /\ parameterList' = [parameterList EXCEPT !.searchActive = TRUE]
    /\ UNCHANGED <<currentScreen, Session, profileSelector, regionSelector, parameterView, parameterEdit,
                   inflight, running, Disk, remote>>

InSearch == currentScreen = ParameterListScreen /\ parameterList.searchActive

\* the queries the search box is driven through: empty, a name of the listing, no match
Queries == {"", ParamNames[1], "zz"}

\* ParameterListModel.Update in search mode: "esc", "enter", any other key
\* "esc" in search mode, were the query cleared without restoring the list
KeyListSearchEscKeepingFilter ==
    /\ Press /\ InSearch
    /\ parameterList' = [parameterList EXCEPT !.searchActive = FALSE, !.query = ""]
    /\ UNCHANGED <<currentScreen, Session, profileSelector, regionSelector, parameterView, parameterEdit,
                   inflight, running, Disk, remote>>

KeyListSearchEsc ==
    /\ Press /\ InSearch
    /\ parameterList' = [parameterList EXCEPT !.searchActive = FALSE, !.query = "",
                                              !.filtered = 1..parameterList.parameters.n]
    /\ UNCHANGED <<currentScreen, Session, profileSelector, regionSelector, parameterView, parameterEdit,
                   inflight, running, Disk, remote>>

KeyListSearchEnter ==
    /\ Press /\ InSearch
    /\ parameterList' = [parameterList EXCEPT !.searchActive = FALSE]
    /\ UNCHANGED <<currentScreen, Session, profileSelector, regionSelector, parameterView, parameterEdit,
                   inflight, running, Disk, remote>>

KeyListSearchType ==
    /\ Press /\ InSearch
    /\ \E q \in Queries \ {parameterList.query} :
          parameterList' =
              [parameterList EXCEPT !.query = q,
                                    !.filtered = FilterParameters(parameterList.parameters.n, q)]
    /\ UNCHANGED <<currentScreen, Session, profileSelector, regionSelector, parameterView, parameterEdit,
                   inflight, running, Disk, remote>>

\* the list item for index i of the loaded listing
ListItem(i) ==
    [name |-> ParamNames[i], from |-> parameterList.parameters.from, full |-> FALSE,
     value |-> S("")]

\* ParameterListModel.Update "enter"/"e": view the item under the cursor
KeyListEnter ==
    /\ Press /\ ListNavigable
    /\ \E i \in parameterList.filtered : Emit(ViewParameterMsg(ListItem(i)))

\* ParameterListModel.Update "p"
KeyListP ==
    /\ Press /\ ListNavigable
    /\ Emit(GoToProfileSelectionMsg)

\* ParameterListModel.Update "backspace"/"esc"
KeyListEsc ==
    /\ Press /\ ListNavigable
    /\ Emit(BackMsg)

\* ParameterListModel.Update "1".."5": the key of entry idx
PressRecent(idx) ==
    /\ Press /\ ListNavigable
    /\ idx <= Len(parameterList.recents)
    /\ LET e == parameterList.recents[idx] IN
          IF e[1] = parameterList.currentProfile /\ e[2] = parameterList.currentRegion
          THEN Ignore
          ELSE Emit(SwitchRecentMsg(e[1], e[2]))

ViewNavigable == currentScreen = ParameterViewScreen /\ ~parameterView.loading

\* whether the detail screen shows flattened entries
ViewHasEntries == parameterView.isJSON /\ Len(parameterView.jsonKeys) > 0

\* ParameterViewModel.Update "e": the key of the selected entry, or the whole value
KeyViewEdit ==
    /\ Press /\ ViewNavigable
    /\ Emit(EditParameterMsg(parameterView.parameter,
                             IF ViewHasEntries
                             THEN parameterView.jsonKeys[parameterView.selectedIndex + 1].key
                             ELSE <<>>))

\* "up"/"k" and "down"/"j", were the selection moved without a look at the ends
KeyViewMoveUnchecked ==
    /\ Press /\ ViewNavigable /\ ViewHasEntries
    /\ \E step \in {-1, 1} :
          parameterView' =
              [parameterView EXCEPT !.selectedIndex = parameterView.selectedIndex + step]
    /\ UNCHANGED <<currentScreen, Session, profileSelector, regionSelector, parameterList,
                   parameterEdit, inflight, running, Disk, remote>>

\* ParameterViewModel.Update "up"/"k" (step -1) and "down"/"j" (step 1) on a screen that
\* shows flattened entries
KeyViewMove ==
    /\ Press /\ ViewNavigable /\ ViewHasEntries
    /\ \E step \in {-1, 1} :
          parameterView' =
              IF \/ step = -1 /\ parameterView.selectedIndex > 0
                 \/ step = 1 /\ parameterView.selectedIndex < Len(parameterView.jsonKeys) - 1
              THEN [parameterView EXCEPT !.selectedIndex = parameterView.selectedIndex + step]
              ELSE parameterView
    /\ UNCHANGED <<currentScreen, Session, profileSelector, regionSelector, parameterList,
                   parameterEdit, inflight, running, Disk, remote>>

\* ParameterViewModel.Update "backspace"/"esc"
KeyViewEsc ==
    /\ Press /\ ViewNavigable
    /\ Emit(BackMsg)

EditNavigable == currentScreen = ParameterEditScreen /\ ~parameterEdit.saving

\* ParameterEditModel.Update "esc"
KeyEditEsc ==
    /\ Press /\ EditNavigable
    /\ Emit(BackMsg)

\* ParameterEditModel.Update, any other key: the textarea takes the typed text
KeyEditType ==
    /\ Press /\ EditNavigable
    /\ \E text \in TypedTexts :
          /\ parameterEdit.buffer # S(text)
          /\ parameterEdit' = [parameterEdit EXCEPT !.buffer = S(text)]
    /\ UNCHANGED <<currentScreen, Session, profileSelector, regionSelector, parameterList,
                   parameterView, inflight, running, Disk, remote>>

\* saveParameter: the value to write and the state of the editor, or the local error when
\* the JSON key cannot be written back
SaveParameter(pe) ==
    LET saving == [pe EXCEPT !.saving = TRUE, !.err = ""]
        update == updateJSONValue(pe.jsonData, pe.selectedKey, pe.buffer)
    IN  IF pe.isJSON /\ pe.selectedKey # <<>>
        THEN CASE update.k = "ok" ->
                    [pe |-> [saving EXCEPT !.jsonData = update.t],
                     cmd |-> PutCmd(pe.client, [pe.parameter EXCEPT !.value = MarshalIndent(update.t)])]
               [] update.k = "error" -> [pe |-> saving, cmd |-> ErrorMsg("Save")]
               [] OTHER -> [pe |-> saving, cmd |-> Msg("Panic")]
        ELSE [pe |-> saving,
              cmd |-> PutCmd(pe.client, [pe.parameter EXCEPT !.value = pe.buffer])]

\* ParameterEditModel.Update "ctrl+s"
KeyEditSave ==
    /\ Press /\ EditNavigable
    /\ Room
    /\ LET saved == SaveParameter(parameterEdit) IN
       /\ parameterEdit' = saved.pe
       /\ IF saved.cmd.t = "Panic"
          THEN running' = FALSE /\ inflight' = inflight
          ELSE running' = running /\ inflight' = Send(inflight, saved.cmd)
    /\ UNCHANGED <<currentScreen, Session, profileSelector, regionSelector, parameterList,
                   parameterView, Disk, remote>>

\* the active screen is waiting and not in search mode: ParameterListModel.Update falls
\* through to the spinner, ParameterViewModel.Update and ParameterEditModel.Update return
\* at once
Waiting ==
    \/ currentScreen = ParameterListScreen /\ parameterList.loading /\ ~parameterList.searchActive
    \/ currentScreen = ParameterViewScreen /\ parameterView.loading
    \/ currentScreen = ParameterEditScreen /\ parameterEdit.saving

\* any key other than "ctrl+c" while the active screen waits
KeyWhileWaiting ==
    /\ Press /\ Waiting
    /\ Ignore

\* "ctrl+c" in Model.Update, "q" in the screens that take it: tea.Quit ends the event loop
KeyQuit ==
    /\ Press
    /\ running' = FALSE
    /\ UNCHANGED <<currentScreen, Session, Screens, inflight, Disk, remote>>

----------------------------------------------------------------------------
(* internal/config persistence: a write reaches the file unless the disk refuses it *)

\* config.SaveRegionMapping(m.regionMapping); the error is dropped
SaveRegionMapping(mapping) == diskRegions' = IF diskOk THEN mapping ELSE diskRegions

\* config.SaveRecentEntries(m.recents); the error is dropped
SaveRecentEntries(entries) == diskRecents' = IF diskOk THEN entries ELSE diskRecents

----------------------------------------------------------------------------
(* Messages handled by Model.Update *)

\* m.regionMapping.ProfileRegions[profile] = region, left out
SetProfileRegionNowhere(profile, region) == regionMapping

\* m.regionMapping.ProfileRegions[profile] = region
SetProfileRegion(profile, region) == [regionMapping EXCEPT ![profile] = region]

\* m.awsClients[profile] = client, left out
StoreClientNowhere(profile, region) == awsClients

\* m.awsClients[profile] = client, for the client NewClientWithRegion(profile, region) made
StoreClient(profile, region) == [awsClients EXCEPT ![profile] = region]

\* case types.ProfileSelectedMsg
ProfileSelected(m) ==
    /\ running /\ m.t = "ProfileSelected"
    /\ currentProfile' = m.profile
    /\ currentScreen' = RegionSelectorScreen
    /\ inflight' = Drop(inflight, m)
    /\ regionSelector' =
          IF regionMapping[m.profile] # ""
          THEN SetDefaultRegion(regionSelector, regionMapping[m.profile])
          ELSE regionSelector
    /\ UNCHANGED <<currentRegion, awsClients, regionMapping, recents, switchingToRecent,
                   profileSelector, parameterList, parameterView, parameterEdit, running,
                   Disk, remote, keys, call>>

\* case types.RegionSelectedMsg; ok: whether aws.NewClientWithRegion returned a client
RegionSelected(m, ok) ==
    /\ running /\ m.t = "RegionSelected"
    /\ currentRegion' = m.region
    /\ currentScreen' = ParameterListScreen
    /\ regionMapping' = SetProfileRegion(currentProfile, m.region)
    /\ SaveRegionMapping(regionMapping')
    /\ IF ok
       THEN LET client == <<currentProfile, m.region>> IN
            /\ awsClients' = StoreClient(currentProfile, m.region)
            /\ parameterList' =
                  ListLoadParameters(
                      ListSetContext(parameterList, currentProfile, m.region), client)
            /\ inflight' = Send(Drop(inflight, m), ListCmd(client, "region"))
       ELSE /\ inflight' = Drop(inflight, m)
            /\ UNCHANGED <<awsClients, parameterList>>
    /\ UNCHANGED <<currentProfile, recents, switchingToRecent, profileSelector, regionSelector,
                   parameterView, parameterEdit, running, diskOk, diskRecents, remote, keys, call>>

\* case types.ParametersLoadedMsg: the condition of the recents update
ShouldPromoteEvenEmpty(msg) == ~switchingToRecent

\* the same condition, were the update made only when recents.json can be written
ShouldPromoteWhenSaved(msg) == msg.n > 0 /\ ~switchingToRecent /\ diskOk

ShouldPromote(msg) == msg.n > 0 /\ ~switchingToRecent

\* case types.ParametersLoadedMsg, were the recents updated in memory only
ParametersLoadedUnsaved(msg) ==
    /\ IF ShouldPromote(msg)
       THEN /\ recents' = AddRecentEntry(recents, <<currentProfile, currentRegion>>, MaxRecents)
            /\ updateCurrentScreen(ListSetRecents(parameterList, recents'), msg)
       ELSE /\ recents' = recents
            /\ updateCurrentScreen(parameterList, msg)
    /\ switchingToRecent' = FALSE
    /\ UNCHANGED <<currentScreen, currentProfile, currentRegion, awsClients, regionMapping,
                   running, Disk, remote, keys, call>>

\* case types.ParametersLoadedMsg
ParametersLoaded(msg) ==
    /\ IF ShouldPromote(msg)
       THEN /\ recents' = AddRecentEntry(recents, <<currentProfile, currentRegion>>, MaxRecents)
            /\ SaveRecentEntries(recents')
            /\ updateCurrentScreen(ListSetRecents(parameterList, recents'), msg)
       ELSE /\ recents' = recents
            /\ diskRecents' = diskRecents
            /\ updateCurrentScreen(parameterList, msg)
    /\ switchingToRecent' = FALSE
    /\ UNCHANGED <<currentScreen, currentProfile, currentRegion, awsClients, regionMapping,
                   running, diskOk, diskRegions, remote, keys, call>>

\* a types.ErrorMsg falls through the switch of Model.Update to the active screen
Errored(msg) ==
    /\ updateCurrentScreen(parameterList, msg)
    /\ UNCHANGED <<currentScreen, Session, running, Disk, remote, keys, call>>

\* the command of LoadParameters ends with n parameters
ListLoaded(m, n) ==
    /\ running /\ m.t = "List"
    /\ inflight' = Drop(inflight, m)
    /\ ParametersLoaded([m EXCEPT !.t = "ParametersLoaded", !.n = n])

\* the command of LoadParameters ends with an error of client.ListParameters
ListFailed(m) ==
    /\ running /\ m.t = "List"
    /\ inflight' = Drop(inflight, m)
    /\ Errored(ErrorMsg("List"))

\* case types.ViewParameterMsg
ViewParameter(m) ==
    /\ running /\ m.t = "ViewParameter"
    /\ currentScreen' = ParameterViewScreen
    /\ LET client == ClientOf(currentProfile) IN
       /\ parameterView' =
             ViewLoadParameter(parameterView, currentProfile, currentRegion, m.param, client)
       /\ inflight' = Send(Drop(inflight, m), GetCmd(client, m.param))
    /\ UNCHANGED <<Session, profileSelector, regionSelector, parameterList, parameterEdit, running, Disk, remote, keys, call>>

\* what GetParameter can return through a client: the value written or read before, any
\* value on the first contact
Stored(client) ==
    IF client \in DOMAIN remote THEN {remote[client]} ELSE {PlainValue, ObjectValue, ArrayValue}

\* Parameter Store after a read or a write of the value through a client
Store(client, value) == (client :> value) @@ remote

\* a command run on a nil *aws.Client dereferences it: the program dies
Panicked ==
    /\ running' = FALSE
    /\ UNCHANGED <<currentScreen, Session, Screens, Disk, remote, keys, call>>

\* the command of ParameterViewModel.LoadParameter ends; ok: whether client.GetParameter
\* returned the parameter
GetDone(m, ok) ==
    /\ running /\ m.t = "Get"
    /\ inflight' = Drop(inflight, m)
    /\ IF <<m.profile, m.region>> = NilClient
       THEN Panicked
       ELSE IF ok
       THEN \E value \in Stored(<<m.profile, m.region>>) :
            LET full == [m.param EXCEPT !.from = <<m.profile, m.region>>, !.full = TRUE,
                                        !.value = value] IN
            /\ remote' = Store(<<m.profile, m.region>>, value)
            /\ updateCurrentScreen(parameterList,
                                   [m EXCEPT !.t = "ParameterValueLoaded", !.param = full])
            /\ UNCHANGED <<currentScreen, Session, running, Disk, keys, call>>
       ELSE Errored(ErrorMsg("Get"))

\* case types.EditParameterMsg
EditParameter(m) ==
    /\ running /\ m.t = "EditParameter"
    /\ currentScreen' = ParameterEditScreen
    /\ parameterEdit' =
          EditLoadParameter(parameterEdit, currentProfile, currentRegion, m.param,
                            ClientOf(currentProfile), m.key)
    /\ inflight' = Drop(inflight, m)
    /\ UNCHANGED <<Session, profileSelector, regionSelector, parameterList, parameterView, running, Disk, remote, keys, call>>

\* case types.SaveSuccessMsg; rest: the other pending commands
SaveSuccess(msg, rest) ==
    LET client == ClientOf(currentProfile) IN
    /\ parameterView' =
          ViewLoadParameter(parameterView, currentProfile, currentRegion, msg.param, client)
    /\ currentScreen' = ParameterViewScreen
    /\ inflight' = Send(rest, GetCmd(client, msg.param))
    /\ UNCHANGED <<Session, profileSelector, regionSelector, parameterList, parameterEdit,
                   running, Disk, keys, call>>

\* the command of ParameterEditModel.saveParameter ends; ok: whether client.PutParameter
\* succeeded
PutDone(m, ok) ==
    /\ running /\ m.t = "Put"
    /\ IF <<m.profile, m.region>> = NilClient
       THEN inflight' = Drop(inflight, m) /\ Panicked
       ELSE IF ok
       THEN /\ remote' = Store(<<m.profile, m.region>>, m.param.value)
            /\ SaveSuccess([m EXCEPT !.t = "SaveSuccess", !.param.full = TRUE],
                           Drop(inflight, m))
       ELSE inflight' = Drop(inflight, m) /\ Errored(ErrorMsg("Put"))

\* the types.ErrorMsg saveParameter returns when the JSON value cannot be rebuilt
SaveFailed(m) ==
    /\ running /\ m.t = "Error"
    /\ inflight' = Drop(inflight, m)
    /\ Errored(m)

\* case types.SwitchRecentMsg; ok: whether aws.NewClientWithRegion returned a client
SwitchRecent(m, ok) ==
    /\ running /\ m.t = "SwitchRecent"
    /\ currentProfile' = m.profile
    /\ currentRegion' = m.region
    /\ regionMapping' = SetProfileRegion(m.profile, m.region)
    /\ SaveRegionMapping(regionMapping')
    /\ IF ok
       THEN LET client == <<m.profile, m.region>> IN
            /\ awsClients' = StoreClient(m.profile, m.region)
            /\ switchingToRecent' = TRUE
            /\ parameterList' =
                  ListLoadParameters(
                      ListSetContext(parameterList, m.profile, m.region), client)
            /\ currentScreen' = ParameterListScreen
            /\ inflight' = Send(Drop(inflight, m), ListCmd(client, "recent"))
       ELSE /\ inflight' = Drop(inflight, m)
            /\ UNCHANGED <<awsClients, switchingToRecent, parameterList, currentScreen>>
    /\ UNCHANGED <<recents, profileSelector, regionSelector, parameterView, parameterEdit,
                   running, diskOk, diskRecents, remote, keys, call>>

\* case types.GoToProfileSelectionMsg, forgetting the selected context
GoToProfileSelectionForgetting(m) ==
    /\ running /\ m.t = "GoToProfileSelection"
    /\ currentScreen' = ProfileSelectorScreen
    /\ currentProfile' = ""
    /\ currentRegion' = ""
    /\ inflight' = Drop(inflight, m)
    /\ UNCHANGED <<awsClients, regionMapping, recents, switchingToRecent, Screens, running,
                   Disk, remote, keys, call>>

\* case types.GoToProfileSelectionMsg
GoToProfileSelection(m) ==
    /\ running /\ m.t = "GoToProfileSelection"
    /\ currentScreen' = ProfileSelectorScreen
    /\ inflight' = Drop(inflight, m)
    /\ UNCHANGED <<Session, Screens, running, Disk, remote, keys, call>>

\* case types.BackMsg, with the list going back to the profiles
PreviousScreenSkipping(screen) ==
    CASE screen = RegionSelectorScreen -> ProfileSelectorScreen
      [] screen = ParameterListScreen -> ProfileSelectorScreen
      [] screen = ParameterViewScreen -> ParameterListScreen
      [] screen = ParameterEditScreen -> ParameterViewScreen
      [] OTHER -> screen

\* case types.BackMsg: the inner switch on m.currentScreen
PreviousScreen(screen) ==
    CASE screen = RegionSelectorScreen -> ProfileSelectorScreen
      [] screen = ParameterListScreen -> RegionSelectorScreen
      [] screen = ParameterViewScreen -> ParameterListScreen
      [] screen = ParameterEditScreen -> ParameterViewScreen
      [] OTHER -> screen

\* case types.BackMsg
Back(m) ==
    /\ running /\ m.t = "Back"
    /\ currentScreen' = PreviousScreen(currentScreen)
    /\ inflight' = Drop(inflight, m)
    /\ UNCHANGED <<Session, Screens, running, Disk, remote, keys, call>>

\* Model.Update on the message of one of the pending commands; ok: whether the gateway
\* call behind it succeeded, n: how many parameters a listing returned
UpdateOnMessage ==
    \E m \in Pending :
        \/ ProfileSelected(m)
        \/ \E ok \in BOOLEAN : RegionSelected(m, ok)
        \/ ListFailed(m)
        \/ \E n \in 0..Len(ParamNames) : ListLoaded(m, n)
        \/ ViewParameter(m)
        \/ \E ok \in BOOLEAN : GetDone(m, ok)
        \/ EditParameter(m)
        \/ \E ok \in BOOLEAN : PutDone(m, ok)
        \/ SaveFailed(m)
        \/ \E ok \in BOOLEAN : SwitchRecent(m, ok)
        \/ GoToProfileSelection(m)
        \/ Back(m)

----------------------------------------------------------------------------

Next ==
    \/ KeyProfileEnter
    \/ KeyProfileEsc
    \/ KeyProfileMove
    \/ KeyRegionEnter
    \/ KeyRegionEsc
    \/ KeyRegionMove
    \/ KeyListSearch
    \/ KeyListSearchEsc
    \/ KeyListSearchEnter
    \/ KeyListSearchType
    \/ KeyListEnter
    \/ KeyListP
    \/ KeyListEsc
    \/ \E idx \in 1..5 : PressRecent(idx)
    \/ KeyViewEdit
    \/ KeyViewMove
    \/ KeyViewEsc
    \/ KeyEditEsc
    \/ KeyEditType
    \/ KeyEditSave
    \/ KeyWhileWaiting
    \/ KeyQuit
    \/ UpdateOnMessage

Spec == Init /\ [][Next]_vars

\* the same program started on a full recents.json
SpecFull == InitFull /\ [][Next]_vars

\* a first run in which p1 was chosen, r1 confirmed and a listing of one parameter loaded,
\* every message handled before the next key
OnLoadedList ==
    /\ currentScreen = ParameterListScreen
    /\ currentProfile = "p1"
    /\ currentRegion = "r1"
    /\ awsClients = [p \in ProfileKeys |-> IF p = "p1" THEN "r1" ELSE ""]
    /\ regionMapping = [p \in ProfileKeys |-> IF p = "p1" THEN "r1" ELSE ""]
    /\ recents = << <<"p1", "r1">> >>
    /\ switchingToRecent = FALSE
    /\ profileSelector = NewProfileSelector
    /\ regionSelector = NewRegionSelector
    /\ parameterList =
          ListUpdate(
              ListSetRecents(
                  ListLoadParameters(ListSetContext(NewParameterList(<<>>), "p1", "r1"),
                                     <<"p1", "r1">>),
                  recents),
              [ListCmd(<<"p1", "r1">>, "region") EXCEPT !.t = "ParametersLoaded", !.n = 1])
    /\ parameterView = NewParameterView
    /\ parameterEdit = NewParameterEdit
    /\ inflight = EmptyBag
    /\ running = TRUE
    /\ diskOk = TRUE
    /\ diskRegions = regionMapping
    /\ diskRecents = recents
    /\ remote = <<>>

\* the session from there on, with the key presses counted from there
InitList == OnLoadedList /\ keys = 0 /\ call = NoCall

SpecList == InitList /\ [][Next]_vars

\* the same, with the runtime's promise: a command that was returned is run to its end and
\* its message is handed to Model.Update, as is every message sent to the program
SpecLive == InitList /\ [][Next]_vars /\ WF_vars(UpdateOnMessage)

----------------------------------------------------------------------------
(* The path functions on their own: getJSONValue, updateJSONValue and the keys of
   flattenJSONForView applied to trees, paths and texts drawn from bounded sets *)

ItemsTree == Obj(Chars("items") :> Arr(<<Str(S("a")), Str(S("b")), Str(S("c"))>>))

\* the decoded values the functions are applied to: {"items":["a","b","c"]},
\* {"server":{"port":8080,"host":"x"}}, an object one of whose keys is spelled like a path
\* into its neighbour, and the two containers of the parameters
Trees ==
    {ItemsTree,
     Obj(Chars("server") :> Obj((Chars("port") :> Num(8080)) @@ (Chars("host") :> Str(S("x"))))),
     Obj((Chars("a") :> Arr(<<Str(S("x"))>>)) @@ (Chars("a.b[-1]") :> Str(S("v")))),
     ObjectValue.t, ArrayValue.t}

\* the paths: keys of the trees, and paths that resolve in none of them
PathTexts ==
    {"server.port", "server.host", "server.port.x", "server", "items[1]", "items[5]",
     "items", "k", "a[0]", "a.b[-1]", "a[x]", "a[0", "[0", "zz", "", "[0]", "x[0]", "x[-1]"}

\* the texts typed as the new value
NewValues == {"null", "true", "false", "42", "-0", "3.5", "hello", "42abc", ""}

Program == <<currentScreen, Session, Screens, inflight, running, Disk, remote, keys>>

InitPath ==
    /\ diskOk = TRUE
    /\ NewModel(<<>>)
    /\ \E data \in Trees, path \in PathTexts, newValue \in NewValues :
          call = [op |-> "start", data |-> data, path |-> Chars(path),
                  newValue |-> S(newValue), before |-> data, outcome |-> "",
                  result |-> S(""), expected |-> S("")]

\* value := m.getJSONValue(data, jsonKey)
CallGetJSONValue ==
    /\ call.op = "start"
    /\ call' = [call EXCEPT !.op = "read", !.result = getJSONValue(call.data, call.path)]
    /\ UNCHANGED Program

\* "e" on an entry of the detail screen: the editor reads the key flattenJSONForView gave
CallEntry ==
    /\ call.op = "start"
    /\ LET entries == flattenJSONForView(call.data, <<>>) IN
       \E i \in 1..Len(entries) :
          call' = [call EXCEPT !.op = "entry", !.path = entries[i].key,
                               !.expected = entries[i].value,
                               !.result = getJSONValue(call.data, entries[i].key)]
    /\ UNCHANGED Program

\* err := m.updateJSONValue(m.jsonData, m.selectedKey, newValue): the tree is changed in
\* place when the assignment is reached
CallUpdateJSONValue ==
    /\ call.op = "start"
    /\ LET update == updateJSONValue(call.data, call.path, call.newValue) IN
       call' = [call EXCEPT !.op = "written", !.outcome = update.k,
                            !.data = IF update.k = "ok" THEN update.t ELSE call.data]
    /\ UNCHANGED Program

\* getJSONValue at the path just written
CallReadBack ==
    /\ call.op = "written" /\ call.outcome = "ok"
    /\ call' = [call EXCEPT !.op = "readback", !.result = getJSONValue(call.data, call.path)]
    /\ UNCHANGED Program

NextPath ==
    \/ CallGetJSONValue
    \/ CallEntry
    \/ CallUpdateJSONValue
    \/ CallReadBack

SpecPath == InitPath /\ [][NextPath]_vars

----------------------------------------------------------------------------
(* Screen topology *)

TopologyEdges ==
    { <<ProfileSelectorScreen, RegionSelectorScreen>>,
      <<RegionSelectorScreen, ParameterListScreen>>,
      <<ParameterListScreen, ParameterViewScreen>>,
      <<ParameterViewScreen, ParameterEditScreen>>,
      <<ParameterEditScreen, ParameterViewScreen>>,
      <<ParameterListScreen, ProfileSelectorScreen>>,
      <<ParameterListScreen, ParameterListScreen>>,
      <<RegionSelectorScreen, ProfileSelectorScreen>>,
      <<ParameterListScreen, RegionSelectorScreen>>,
      <<ParameterViewScreen, ParameterListScreen>> }

\* C1: the active screen starts as ProfileSelect, and every step either keeps the active
\* screen or moves it along an edge of the fixed topology.
C1_ScreenFollowsTopology ==
    /\ currentScreen = ProfileSelectorScreen
    /\ [][currentScreen' = currentScreen
            \/ <<currentScreen, currentScreen'>> \in TopologyEdges]_vars

----------------------------------------------------------------------------
(* Completions of asynchronous operations *)

\* the screen whose model dispatched the command
Origin(m) ==
    CASE m.t = "List" -> ParameterListScreen
      [] m.t = "Get" -> ParameterViewScreen
      [] OTHER -> ParameterEditScreen

\* the step in which the message that command m ends with is handled
Completes(m) ==
    \/ ListFailed(m)
    \/ \E n \in 0..Len(ParamNames) : ListLoaded(m, n)
    \/ \E ok \in BOOLEAN : GetDone(m, ok)
    \/ \E ok \in BOOLEAN : PutDone(m, ok)
    \/ SaveFailed(m)

\* C2: a completion handled while another screen than the one that dispatched the
\* operation is active changes neither the active screen nor anything a screen displays.
C2_StaleCompletionDiscarded ==
    [][\A m \in Pending :
          (Completes(m) /\ currentScreen # Origin(m))
              => UNCHANGED <<currentScreen, Screens>>]_vars

----------------------------------------------------------------------------
(* Recent contexts *)

\* C3: the completion of a listing that a recent switch dispatched leaves the order of
\* the recent contexts as it was.
C3_RecentSwitchKeepsOrder ==
    [][\A m \in Pending : \A n \in 0..Len(ParamNames) :
          (m.via = "recent" /\ ListLoaded(m, n)) => recents' = recents]_vars

\* C4: when a listing dispatched by a region confirmation completes with at least one
\* parameter, the selected (profile, region) pair is at the front of the recent contexts
\* right afterwards, and the list has been written to recents.json if the disk takes writes.
C4_NormalListingPromotes ==
    [][\A m \in Pending : \A n \in 1..Len(ParamNames) :
          (m.via = "region" /\ ListLoaded(m, n))
              => /\ recents' # <<>>
                 /\ recents'[1] = <<currentProfile', currentRegion'>>
                 /\ diskOk => diskRecents' = recents']_vars

\* C5: a listing that completes with zero results leaves the recent contexts unchanged,
\* whichever way it was dispatched.
C5_EmptyListingKeepsRecents ==
    [][\A m \in Pending : ListLoaded(m, 0) => recents' = recents]_vars

\* an empty listing of the selected context is on display, and that context is not the
\* first of the recent contexts
C5_Witness ==
    /\ currentScreen = ParameterListScreen
    /\ ~parameterList.loading
    /\ parameterList.parameters = [from |-> <<currentProfile, currentRegion>>, n |-> 0]
    /\ ~switchingToRecent
    /\ recents # <<>>
    /\ recents[1] # <<currentProfile, currentRegion>>

NoDuplicates(s) == \A i, j \in 1..Len(s) : s[i] = s[j] => i = j

Min(a, b) == IF a < b THEN a ELSE b

\* new is old after the promotion of the head of new: the other entries keep their order
\* and only what does not fit in five is dropped from the end
PromotedFrom(old, new) ==
    /\ new # <<>>
    /\ LET others == SelectSeq(old, LAMBDA e : e # new[1]) IN
       /\ Len(new) = Min(5, Len(others) + 1)
       /\ \A i \in 2..Len(new) : new[i] = others[i - 1]

C7_CurrentRecentIsNoOp ==
    [][\A idx \in 1..5 :
          (PressRecent(idx) /\ parameterList.recents[idx] = <<currentProfile, currentRegion>>)
              => UNCHANGED <<currentScreen, Session, Screens, inflight, Disk>>]_vars

C10_HandleOfSelectedContext ==
    (currentProfile # "" /\ currentRegion # "") => awsClients[currentProfile] = currentRegion

----------------------------------------------------------------------------
(* Region defaults *)

\* C11: the region mapping changes only when a region is confirmed, and then records the
\* confirmed region for the profile it was confirmed for (the profile of the selector for a
\* region selection, the profile of the entry for a recent switch); choosing a profile
\* that has a recorded region opens the region selector with the cursor on that region.
C11_RegionDefaultIsLastConfirmed ==
    [][/\ \A m \in Pending : \A ok \in BOOLEAN :
            /\ RegionSelected(m, ok)
                  => regionMapping' = [regionMapping EXCEPT ![m.profile] = m.region]
            /\ SwitchRecent(m, ok)
                  => regionMapping' = [regionMapping EXCEPT ![m.profile] = m.region]
            /\ ProfileSelected(m)
                  => /\ currentScreen' = RegionSelectorScreen
                     /\ regionMapping[m.profile] # ""
                           => regionSelector'.cursor = regionMapping[m.profile]
       /\ regionMapping' # regionMapping
            => \E m \in Pending : \E ok \in BOOLEAN :
                  RegionSelected(m, ok) \/ SwitchRecent(m, ok)]_vars

----------------------------------------------------------------------------
(* Navigation keys *)

BackEdges ==
    { <<RegionSelectorScreen, ProfileSelectorScreen>>,
      <<ParameterListScreen, RegionSelectorScreen>>,
      <<ParameterViewScreen, ParameterListScreen>>,
      <<ParameterEditScreen, ParameterViewScreen>> }

\* C12: handling a back message moves the active screen to the one before it in the
\* topology, and leaves it alone when the profile selector is active; esc/backspace on
\* the profile selector changes nothing, sends nothing and does not end the program.
C12_BackGoesToPrevious ==
    [][/\ \A m \in Pending :
            Back(m) => IF currentScreen = ProfileSelectorScreen
                       THEN currentScreen' = ProfileSelectorScreen
                       ELSE <<currentScreen, currentScreen'>> \in BackEdges
       /\ KeyProfileEsc
            => UNCHANGED <<currentScreen, Session, Screens, inflight, running>>]_vars

\* the list is active again after a parameter was shown: a back message took the detail
\* screen to the list
C12_Witness ==
    /\ currentScreen = ParameterListScreen
    /\ parameterView.parameter.full
    /\ ~parameterView.loading
    /\ inflight = EmptyBag
    /\ running

\* C13: the go-to-profiles key on the navigable list only sends its message, and handling
\* that message makes the profile selector active, sends nothing and leaves the selected
\* profile and region, the handles, the region mapping and the recent contexts unchanged.
C13_GoToProfiles ==
    [][/\ KeyListP
            => /\ inflight' = Send(inflight, GoToProfileSelectionMsg)
               /\ UNCHANGED <<currentScreen, Session, Screens>>
       /\ \A m \in Pending :
            GoToProfileSelection(m)
               => /\ currentScreen' = ProfileSelectorScreen
                  /\ inflight' = Drop(inflight, m)
                  /\ UNCHANGED <<currentProfile, currentRegion, awsClients, regionMapping,
                                 recents>>]_vars

\* the profile selector is active with a context selected and its listing on display:
\* the go-to-profiles key went there from the list
C13_Witness ==
    /\ currentScreen = ProfileSelectorScreen
    /\ currentProfile # "" /\ currentRegion # ""
    /\ awsClients[currentProfile] = currentRegion
    /\ parameterList.parameters.from = <<currentProfile, currentRegion>>
    /\ inflight = EmptyBag

\* C18: every failure of handle creation, of the listing, of the fetch or of the write-back
\* records an error on the screen that asked for the operation: the region selector or the
\* list for a handle, the list for a listing, the detail screen for a fetch, the editor for
\* a write-back.
C18_FailuresAreShown ==
    [][\A m \in Pending :
          /\ RegionSelected(m, FALSE)
                => regionSelector' # regionSelector \/ parameterList'.err # ""
          /\ SwitchRecent(m, FALSE) => parameterList'.err # ""
          /\ ListFailed(m) => parameterList'.err = "List"
          /\ (GetDone(m, FALSE) /\ <<m.profile, m.region>> # NilClient)
                => parameterView'.err = "Get"
          /\ (PutDone(m, FALSE) /\ <<m.profile, m.region>> # NilClient)
                => parameterEdit'.err = "Put"]_vars

\* C19: when no handle can be created for a confirmed region or a chosen recent context,
\* the active screen, the selected profile and region and the context shown by the list
\* stay as they were.
C19_NoPartialNavigation ==
    [][\A m \in Pending :
          (RegionSelected(m, FALSE) \/ SwitchRecent(m, FALSE))
             => UNCHANGED <<currentScreen, currentProfile, currentRegion,
                            parameterList.currentProfile, parameterList.currentRegion>>]_vars

C14_ViewFetchesAndShows ==
    [][\A m \in Pending :
          /\ ViewParameter(m)
                => /\ currentScreen' = ParameterViewScreen
                   /\ parameterView'.loading
                   /\ inflight' = Send(Drop(inflight, m),
                                       GetCmd(ClientOf(currentProfile), m.param))
          /\ (GetDone(m, TRUE) /\ <<m.profile, m.region>> # NilClient)
                => /\ ~parameterView'.loading
                   /\ parameterView'.parameter.name = m.param.name
                   /\ parameterView'.parameter.full
                   /\ parameterView'.parameter.value = remote'[<<m.profile, m.region>>]]_vars

\* the entry the detail screen has selected
SelectedEntry == parameterView.jsonKeys[parameterView.selectedIndex + 1]

\* C15: handling the edit request of the detail screen makes the editor active with its
\* buffer seeded from the parameter on display: when the value on display is JSON with at
\* least one flattened entry, the buffer holds the value shown for the selected entry and
\* the editor targets that entry's path; otherwise the buffer holds the whole raw value.
C15_EditSeededFromSelection ==
    [][\A m \in Pending :
          (EditParameter(m) /\ m = EditParameterMsg(parameterView.parameter, m.key))
             => /\ currentScreen' = ParameterEditScreen
                /\ IF isValidJSON(parameterView.parameter.value) /\ ViewHasEntries
                   THEN /\ parameterEdit'.buffer = SelectedEntry.value
                        /\ parameterEdit'.selectedKey = SelectedEntry.key
                        /\ SelectedEntry.key # <<>> => parameterEdit'.isJSON
                   ELSE parameterEdit'.buffer = parameterView.parameter.value]_vars

\* C16: when the write-back of a save succeeds, the detail screen becomes active and a
\* fetch of the written parameter is sent; when that fetch succeeds, the detail screen is
\* not loading and shows the written value.  (A fetch sent after a save carries the
\* written parameter, a fetch sent from the list a list item without value.)
C16_SaveReloadsDetail ==
    [][\A m \in Pending :
          /\ (PutDone(m, TRUE) /\ <<m.profile, m.region>> # NilClient)
                => /\ currentScreen' = ParameterViewScreen
                   /\ \E get \in BagToSet(inflight') :
                         /\ get.t = "Get"
                         /\ get.param.name = m.param.name
                         /\ get.param.value = m.param.value
                         /\ <<get.profile, get.region>> = <<m.profile, m.region>>
          /\ (GetDone(m, TRUE) /\ m.param.full /\ <<m.profile, m.region>> # NilClient)
                => /\ currentScreen' = ParameterViewScreen
                   /\ ~parameterView'.loading
                   /\ parameterView'.parameter.name = m.param.name
                   /\ parameterView'.parameter.value = m.param.value]_vars

\* what the detail screen asks the editor to edit
EditRequest ==
    EditParameterMsg(parameterView.parameter,
                     IF ViewHasEntries THEN SelectedEntry.key ELSE <<>>)

\* C17: the cancel key of the editor sends a BackMsg and nothing else (no write-back, no
\* fetch); handling it on the editor makes the detail screen active, sends nothing and
\* leaves the parameter, the flattened entries and the selected entry of the detail
\* screen as they are; handling the edit request of the detail screen seeds the buffer
\* as a fresh editor would be seeded from the parameter on display, whatever the buffer
\* held before.
C17_CancelDiscardsBuffer ==
    [][/\ KeyEditEsc
            => /\ inflight' = Send(inflight, BackMsg)
               /\ UNCHANGED <<currentScreen, Session, Screens, remote>>
       /\ \A m \in Pending :
            /\ (Back(m) /\ currentScreen = ParameterEditScreen)
                  => /\ currentScreen' = ParameterViewScreen
                     /\ inflight' = Drop(inflight, m)
                     /\ UNCHANGED <<parameterView, remote>>
            /\ (EditParameter(m) /\ m = EditRequest)
                  => /\ parameterEdit'.buffer =
                           EditLoadParameter(NewParameterEdit, currentProfile, currentRegion,
                                             parameterView.parameter,
                                             ClientOf(currentProfile), m.key).buffer
                     /\ parameterEdit'.parameter = parameterView.parameter
                     /\ UNCHANGED parameterView]_vars

\* the detail screen is active after an edit was cancelled: the editor still holds the
\* typed text, nothing was written, the detail screen shows the fetched parameter
C17_Witness ==
    /\ currentScreen = ParameterViewScreen
    /\ running
    /\ ~parameterView.loading
    /\ parameterView.parameter.full
    /\ parameterEdit.parameter = parameterView.parameter
    /\ ~parameterEdit.saving
    /\ parameterEdit.buffer = S("w")
    /\ remote[parameterEdit.client] = parameterView.parameter.value
    /\ inflight = EmptyBag

OwnOperationPending ==
    \/ currentScreen = ParameterListScreen /\ parameterList.loading
    \/ currentScreen = ParameterViewScreen /\ parameterView.loading
    \/ currentScreen = ParameterEditScreen /\ parameterEdit.saving

\* C22: while the active screen waits on its own operation, a key press that is not the
\* quit key changes neither the active screen, nor any screen model, nor the session
\* state, nor the operations in flight.
C22_KeysIgnoredWhileWaiting ==
    [][(keys' # keys /\ OwnOperationPending /\ running')
          => UNCHANGED <<currentScreen, Screens, Session, inflight>>]_vars

\* C23: a key pressed on the parameter list in search mode (the global quit key aside)
\* hands no command to the runtime and changes nothing but the list screen; it either
\* cancels (query cleared, every loaded parameter listed again, search mode left),
\* confirms (filtered list and query kept, search mode left) or edits the query (list
\* refiltered, search mode kept).
C23_SearchModeKeys ==
    [][(keys' # keys /\ InSearch /\ running')
          => /\ UNCHANGED <<currentScreen, Session, inflight, profileSelector, regionSelector,
                            parameterView, parameterEdit>>
             /\ \/ parameterList' =
                      [parameterList EXCEPT !.searchActive = FALSE, !.query = "",
                                            !.filtered = 1..parameterList.parameters.n]
                \/ parameterList' = [parameterList EXCEPT !.searchActive = FALSE]
                \/ /\ parameterList'.searchActive
                   /\ parameterList' =
                         [parameterList EXCEPT
                             !.query = parameterList'.query,
                             !.filtered = FilterParameters(parameterList.parameters.n,
                                                           parameterList'.query)]]_vars

\* a search that matches nothing was confirmed, its empty list is still shown, and the
\* "esc" pressed afterwards was taken as navigation
C23_Witness ==
    /\ currentScreen = ParameterListScreen
    /\ ~parameterList.searchActive
    /\ parameterList.query = "zz"
    /\ parameterList.parameters.n = 1 /\ parameterList.filtered = {}
    /\ BackMsg \in Pending

----------------------------------------------------------------------------
(* Structured paths *)

\* C24: reading a tree at the key of one of its flattened entries returns the value of
\* that entry.
C24_ReadReturnsFlattenedValue ==
    call.op = "entry" => call.result = call.expected

\* C25: against {"items":["a","b","c"]} the path items[1] reads "b", and writing "true"
\* there succeeds and leaves {"items":["a",true,"c"]}.
C25_KeyIndexAddressesElement ==
    (call.op # "none" /\ call.before = ItemsTree /\ call.path = Chars("items[1]"))
        => /\ call.op = "read" => call.result = S("b")
           /\ (call.op = "written" /\ call.newValue = S("true"))
                 => /\ call.outcome = "ok"
                    /\ call.data =
                          Obj(Chars("items") :>
                                 Arr(<<Str(S("a")), Bool(TRUE), Str(S("c"))>>))

\* C26: a read never ends in a run-time panic, whatever the tree and the path.
C26_ReadNeverPanics ==
    call.op \in {"read", "entry", "readback"} => call.result # Panic

\* a text that is a number from its first to its last character
IsWholeNumber(s) ==
    LET token == floatToken(s) IN
    ParseFloatOk(token) /\ SpacesFrom(s, 1) = 0 /\ token.end = Len(s) + 1

\* the replacement the inference is to make of a text
Inferred(newValue) ==
    CASE newValue = S("null") -> Null
      [] newValue = S("true") -> Bool(TRUE)
      [] newValue = S("false") -> Bool(FALSE)
      [] newValue.k = "lit" /\ IsWholeNumber(newValue.s) ->
            LET f == ParseFloat(floatToken(newValue.s)) IN
            IF f.frac = "" THEN Int64(IF f.neg THEN 0 - f.whole ELSE f.whole) ELSE f
      [] OTHER -> Str(newValue)

\* C27: after a successful write at a path that is one key, the object holds under that
\* key null for "null", a boolean for "true"/"false", a number for a text that is a number
\* as a whole (an int64 when integral, else a float64), and for every other text a string
\* equal to the text.
C27_TypeInference ==
    (call.op = "written" /\ call.outcome = "ok" /\ Len(parsePath(call.path)) = 1
        /\ ~parsePath(call.path)[1].isArray)
        => call.data.f[parsePath(call.path)[1].key] = Inferred(call.newValue)

\* an integer literal, a boolean literal, or a text that is no literal at all
RoundTripText(newValue) ==
    \/ newValue \in {S("true"), S("false")}
    \/ IsJSONNumber(newValue.s) /\ floatToken(newValue.s).frac = ""
    \/ newValue # S("null") /\ ~IsJSONNumber(newValue.s)

\* C28: reading at the path just written returns the written text, for integer literals,
\* for "true" and "false", and for texts that are no literal.
C28_WriteThenRead ==
    (call.op = "readback" /\ RoundTripText(call.newValue)) => call.result = call.newValue

\* a part before the last does not resolve to a container of its shape, or the last part
\* is an index outside the array
RECURSIVE Unresolved(_, _, _)
Unresolved(current, parts, i) ==
    LET part == parts[i]
        inRange == current.k = "arr" /\ part.index >= 0 /\ part.index < Len(current.a)
    IN  IF i = Len(parts) THEN part.isArray /\ ~inRange
        ELSE IF part.isArray
             THEN ~inRange \/ Unresolved(current.a[part.index + 1], parts, i + 1)
             ELSE \/ current.k # "obj"
                  \/ part.key \notin DOMAIN current.f
                  \/ Unresolved(current.f[part.key], parts, i + 1)

\* C29: a write whose path has a part before the last that does not resolve, or whose last
\* index is outside the array, returns an error and leaves the tree as it was.
C29_WriteFailsWithoutChange ==
    (call.op = "written" /\ parsePath(call.path) # <<>>
        /\ Unresolved(call.before, parsePath(call.path), 1))
        => call.outcome = "error" /\ call.data = call.before

\* the editor holds one key of a JSON value and the write at that key returns an error
PathFailsForWriting ==
    /\ parameterEdit.isJSON /\ parameterEdit.selectedKey # <<>>
    /\ updateJSONValue(parameterEdit.jsonData, parameterEdit.selectedKey,
                       parameterEdit.buffer) = UpdateError

\* C30: when the save key is pressed in the editor and the write at the selected key
\* fails, no write-back is handed to the runtime, only the error; and when that error is
\* handled the editor is the active screen, shows the error, is no longer saving and
\* holds the text it held.
C30_FailedPathAbortsSave ==
    [][/\ (keys' # keys /\ ~parameterEdit.saving /\ parameterEdit'.saving
              /\ PathFailsForWriting)
            => /\ inflight' = Send(inflight, ErrorMsg("Save"))
               /\ currentScreen' = ParameterEditScreen
               /\ parameterEdit'.buffer = parameterEdit.buffer
       /\ \A m \in Pending :
             (m = ErrorMsg("Save") /\ SaveFailed(m))
                => /\ currentScreen' = ParameterEditScreen
                   /\ parameterEdit'.err = "Save"
                   /\ ~parameterEdit'.saving
                   /\ parameterEdit'.buffer = parameterEdit.buffer]_vars

\* a "[" of the path has no "]" after it
Unclosed(path) ==
    \E i \in 1..Len(path) :
        path[i] = "[" /\ \A j \in (i + 1)..Len(path) : path[j] # "]"

\* C31: a path with an unclosed "[" does not parse: a write with it returns an error, and
\* what parsePath returns for it differs from what it returns for the empty path.
C31_UnclosedBracketIsMalformed ==
    (call.op = "written" /\ Unclosed(call.path))
        => /\ call.outcome = "error"
           /\ parsePath(call.path) # parsePath(<<>>)

\* the ways of listing the elements of a set in strictly increasing byte order
Ascending(names) ==
    {order \in [1..Cardinality(names) -> names] :
        \A i, j \in 1..Cardinality(names) : i < j => StringLess(order[i], order[j])}

\* the concatenation of the sequences seqs[1], seqs[2], ...
RECURSIVE Concat(_)
Concat(seqs) == IF seqs = <<>> THEN <<>> ELSE Head(seqs) \o Concat(Tail(seqs))

\* the entries of a node are those of its children one after the other, the children of an
\* object taken by increasing key, those of an array by increasing index; and so below
RECURSIVE DepthFirstInOrder(_, _)
DepthFirstInOrder(data, prefix) ==
    CASE data.k = "obj" ->
            LET under(key) == IF prefix # <<>> THEN prefix \o <<".">> \o key ELSE key IN
            /\ \E order \in Ascending(DOMAIN data.f) :
                  flattenJSONForView(data, prefix) =
                      Concat([i \in 1..Len(order) |->
                                 flattenJSONForView(data.f[order[i]], under(order[i]))])
            /\ \A key \in DOMAIN data.f : DepthFirstInOrder(data.f[key], under(key))
      [] data.k = "arr" ->
            LET under(i) == prefix \o <<"[">> \o Itoa(i - 1) \o <<"]">> IN
            /\ flattenJSONForView(data, prefix) =
                  Concat([i \in 1..Len(data.a) |-> flattenJSONForView(data.a[i], under(i))])
            /\ \A i \in 1..Len(data.a) : DepthFirstInOrder(data.a[i], under(i))
      [] OTHER -> Len(flattenJSONForView(data, prefix)) = 1

\* C32: flattening leaves the tree as it was, and its entries come depth-first, the keys
\* of every object in increasing byte order and the elements of every array by index.
C32_FlattenOrdered ==
    call.op = "entry" => call.data = call.before /\ DepthFirstInOrder(call.data, <<>>)

\* the second entry of {"server":{"port":8080,"host":"x"}} was taken: host came first
C32_Witness ==
    /\ call.op = "entry"
    /\ call.path = Chars("server.port")
    /\ flattenJSONForView(call.data, <<>>)[2].key = call.path

\* C33: switchingToRecent is set only while the listing dispatched by a recent switch is
\* still to complete; once that listing has ended, with parameters, with none or with an
\* error, the flag is down.
C33_FlagOnlyDuringRecentListing ==
    switchingToRecent => \E m \in Pending : m.t = "List" /\ m.via = "recent"

\* C34: whenever the parameter list is the active screen and shows its list (it is neither
\* loading nor showing an error), the parameters on it come from a listing issued for the
\* profile and region of its title, and these are the selected profile and region.
C34_ListShowsItsContext ==
    (currentScreen = ParameterListScreen /\ ~parameterList.loading /\ parameterList.err = "")
        => /\ parameterList.parameters.from =
                 <<parameterList.currentProfile, parameterList.currentRegion>>
           /\ <<parameterList.currentProfile, parameterList.currentRegion>> =
                 <<currentProfile, currentRegion>>

\* C35: with every command run to its end and every message delivered, a state in which
\* the active screen shows its loading or saving indicator is followed by one in which it
\* does not (or the program has ended).
C35_IndicatorCleared ==
    (running /\ OwnOperationPending) ~> (~running \/ ~OwnOperationPending)

\* C36: whenever the detail screen holds flattened entries, the selected index is one of
\* them; an up or down key moves it by at most one and leaves it where it is only at the
\* first or the last entry; a fetched value arriving on the detail screen selects entry 0.
C36_SelectionInRange ==
    /\ [](Len(parameterView.jsonKeys) > 0
            => parameterView.selectedIndex \in 0..(Len(parameterView.jsonKeys) - 1))
    /\ [][/\ KeyViewMove
               => /\ parameterView'.selectedIndex - parameterView.selectedIndex \in {-1, 0, 1}
                  /\ parameterView'.selectedIndex = parameterView.selectedIndex
                        => parameterView.selectedIndex \in {0, Len(parameterView.jsonKeys) - 1}
                  /\ parameterView'.jsonKeys = parameterView.jsonKeys
          /\ \A m \in Pending :
               (GetDone(m, TRUE) /\ running' /\ currentScreen = ParameterViewScreen)
                   => parameterView'.selectedIndex = 0]_vars

\* the selection stands on the last of several entries of the detail screen
C36_Witness ==
    /\ currentScreen = ParameterViewScreen
    /\ ViewHasEntries
    /\ parameterView.selectedIndex > 0
    /\ parameterView.selectedIndex = Len(parameterView.jsonKeys) - 1

\* the keys of the flattened view of a value, none when the value is not JSON
FlattenedKeysOf(value) ==
    IF isValidJSON(value)
    THEN LET entries == flattenJSONForView(Unmarshal(value), <<>>)
         IN  {entries[i].key : i \in 1..Len(entries)}
    ELSE {}

\* C37: whenever the editor is the active screen, the parameter it edits is one whose full
\* value was fetched, and the key it edits, if any, is a key of the flattened view of that
\* value.
C37_EditorOpensOnFetchedValue ==
    currentScreen = ParameterEditScreen
        => /\ parameterEdit.parameter.full
           /\ parameterEdit.selectedKey # <<>>
                 => parameterEdit.selectedKey \in FlattenedKeysOf(parameterEdit.parameter.value)

\* C38: a write that succeeded leaves the flattened keys of the tree as they were, in
\* number and in order, and the value of every entry but the one at the written path.
C38_WriteChangesOnlyItsPath ==
    (call.op = "written" /\ call.outcome = "ok")
        => LET before == flattenJSONForView(call.before, <<>>)
               after == flattenJSONForView(call.data, <<>>)
           IN  /\ Len(after) = Len(before)
               /\ \A i \in 1..Len(before) :
                     /\ i <= Len(after)
                     /\ after[i].key = before[i].key
                     /\ before[i].key # call.path => after[i].value = before[i].value

\* the commands a step adds to those in flight
Dispatched == {m \in BagToSet(inflight') : CopiesIn(m, inflight') > CopiesIn(m, inflight)}

\* C39: every fetch is dispatched on a client that exists and is bound to the profile and
\* region the detail screen then displays, and every write-back on a client that exists
\* and is bound to the profile and region the editor displays.
C39_OperationsUseTheDisplayedContext ==
    [][\A m \in Dispatched :
          /\ m.t = "Get"
                => /\ <<m.profile, m.region>> # NilClient
                   /\ <<m.profile, m.region>> =
                         <<parameterView'.currentProfile, parameterView'.currentRegion>>
          /\ m.t = "Put"
                => /\ <<m.profile, m.region>> # NilClient
                   /\ <<m.profile, m.region>> =
                         <<parameterEdit'.currentProfile, parameterEdit'.currentRegion>>]_vars

\* the write-backs in flight
PutsInFlight == {m \in Pending : m.t = "Put"}

\* C40: at most one write-back is in flight at any time; and a key other than the quit key
\* pressed while the editor is saving sends nothing and changes neither the screens nor the
\* session.
C40_OneWriteBackAtATime ==
    /\ [](\A m \in PutsInFlight : PutsInFlight = {m} /\ CopiesIn(m, inflight) = 1)
    /\ [][(Press /\ currentScreen = ParameterEditScreen /\ parameterEdit.saving /\ running')
             => UNCHANGED <<inflight, currentScreen, Session, Screens, remote>>]_vars


====
